---- MODULE Spec2Model ----
(***************************************************************************)
(* A model of gym_rlf/envs/delta_hedging_env.py: the delta-hedging episode *)
(* engine (reset/step), the price-sorted log of (price, action) pairs and  *)
(* the concavity penalty computed over it.                                 *)
(*                                                                         *)
(* Numbers.  Prices, positions and option values live on an integer grid.  *)
(* Everything the code derives from them by division (normalised actions,  *)
(* secant slopes, penalties, costs, rewards) is an exact rational <<n, d>> *)
(* with d > 0 in lowest terms, so equality of rationals is equality of     *)
(* pairs.  Floating-point rounding is not modelled.                        *)
(***************************************************************************)
EXTENDS Integers, Sequences, FiniteSets, TLC

(***************************************************************************)
(* Configuration imported from gym_rlf.envs.Parameters and                 *)
(* gym_rlf.envs.rlf_env (line 8-9).  The values are scaled to the grid.    *)
(***************************************************************************)
MIN_PRICE == 2
MAX_PRICE == 4
S0 == 3
T == 3
OptionSize == 2
action_space_normalizer == 2
PENALTY_WEIGHT == 2
MAX_PENALTY == 3
sigma_dh == 1
TickSize == <<1, 2>>
kappa_dh == <<1, 5>>

(***************************************************************************)
(* Bounds of the model.                                                    *)
(***************************************************************************)
\* raw prices S0*exp(x) range over 1..MaxRaw before clamping
MaxRaw == 5
\* longest log explored by the specification of the regularizer alone
MaxLog == 4
\* largest trade size probed by the specification of the pure functions
MaxTrade == 5

(***************************************************************************)
(* Exact rational arithmetic.                                              *)
(***************************************************************************)
Abs(x) == IF x < 0 THEN -x ELSE x

Max(a, b) == IF a >= b THEN a ELSE b

Min(a, b) == IF a <= b THEN a ELSE b

RECURSIVE GCD(_, _)
GCD(a, b) == IF b = 0 THEN a ELSE GCD(b, a % b)

\* n/d in lowest terms with a positive denominator (d # 0)
Rat(n, d) ==
  LET g == GCD(Abs(n), Abs(d))
      s == IF d < 0 THEN -1 ELSE 1
  IN  <<(s * n) \div g, (s * d) \div g>>

RInt(n) == <<n, 1>>

LCM(a, b) == (a \div GCD(a, b)) * b

RAdd(x, y) ==
  LET l == LCM(x[2], y[2])
  IN  Rat(x[1] * (l \div x[2]) + y[1] * (l \div y[2]), l)

RNeg(x) == <<-x[1], x[2]>>

RSub(x, y) == RAdd(x, RNeg(y))

RMul(x, y) == Rat(x[1] * y[1], x[2] * y[2])

\* y # 0
RDiv(x, y) == Rat(x[1] * y[2], x[2] * y[1])

RLt(x, y) ==
  LET l == LCM(x[2], y[2])
  IN  x[1] * (l \div x[2]) < y[1] * (l \div y[2])

RLe(x, y) ==
  LET l == LCM(x[2], y[2])
  IN  x[1] * (l \div x[2]) <= y[1] * (l \div y[2])

RMin(x, y) == IF RLe(x, y) THEN x ELSE y

RZero == <<0, 1>>

RECURSIVE RSum(_)
RSum(seq) == IF seq = <<>> THEN RZero ELSE RAdd(Head(seq), RSum(Tail(seq)))

(***************************************************************************)
(* Python lists are 0-based: At and Put read and write index k.            *)
(***************************************************************************)
At(seq, k) == seq[k + 1]

Put(seq, k, v) == [seq EXCEPT ![k + 1] = v]

(***************************************************************************)
(* insertion_sort (lines 12-23).  The last entry of both lists is the new  *)
(* pair; the while loop shifts entries right while state < states[j].      *)
(***************************************************************************)
InsertionLess_NoShift(state, other) == FALSE

InsertionLess_OrEqual(state, other) == state <= other

\* the loop condition of line 16, after j >= 0
InsertionLess(state, other) == state < other

RECURSIVE InsertionLoop(_, _, _, _, _)
InsertionLoop(states_, actions_, j, state, action) ==
  IF j >= 0 /\ InsertionLess(state, At(states_, j))
  THEN InsertionLoop(Put(states_, j + 1, At(states_, j)),
                     Put(actions_, j + 1, At(actions_, j)),
                     j - 1, state, action)
  ELSE [states  |-> Put(states_, j + 1, state),
        actions |-> Put(actions_, j + 1, action),
        j       |-> j + 1]

insertion_sort_Dedup(states_, actions_) ==
  LET n == Len(states_)
      r == InsertionLoop(states_, actions_, n - 2, states_[n], actions_[n])
  IN  IF \E k \in 1..(n - 1) : states_[k] = states_[n]
      THEN [states  |-> SubSeq(states_, 1, n - 1),
            actions |-> SubSeq(actions_, 1, n - 1),
            j       |-> r.j - 1]
      ELSE r

insertion_sort(states_, actions_) ==
  InsertionLoop(states_, actions_, Len(states_) - 2,
                states_[Len(states_)], actions_[Len(actions_)])

(***************************************************************************)
(* func_property (lines 25-33).  s0, s1, s2 are grid prices, a0, a1, a2    *)
(* rationals.  Past the test of line 27, lines 28-29 divide by s1 - s0 and *)
(* s2 - s0: func_property_raises tells whether one of them is 0, in which  *)
(* case the call raises ZeroDivisionError and returns no value.            *)
(***************************************************************************)
Degenerate_OnlyBoth(s0, s1, s2) == s1 = s0 /\ s2 = s0

Degenerate_LastOnly(s0, s1, s2) == s2 = s0

\* line 27
Degenerate(s0, s1, s2) == s1 = s0 \/ s2 = s0

func_property_raises(s0, s1, s2) ==
  ~Degenerate(s0, s1, s2) /\ (s1 - s0 = 0 \/ s2 - s0 = 0)

Grad(s0, s1, a0, a1) == RDiv(RSub(a1, a0), RInt(s1 - s0))

Concave_Flipped(grad1, grad2) == RLe(grad1, grad2)

\* line 30
Concave(grad1, grad2) == RLe(grad2, grad1)

Capped_NoCap(p) == p

Capped_Floor(p) == IF RLe(p, RInt(MAX_PENALTY)) THEN RInt(MAX_PENALTY) ELSE p

\* line 33, p = PENALTY_WEIGHT * (grad2 - grad1)**2
Capped(p) == RMin(RInt(MAX_PENALTY), p)

func_property(s0, s1, s2, a0, a1, a2) ==
  IF Degenerate(s0, s1, s2) THEN RZero
  ELSE IF func_property_raises(s0, s1, s2) THEN RZero \* no value is returned
  ELSE LET grad1 == Grad(s0, s1, a0, a1)
           grad2 == Grad(s0, s2, a0, a2)
           gap   == RSub(grad2, grad1)
       IN  IF Concave(grad1, grad2) THEN RZero
           ELSE Capped(RMul(RInt(PENALTY_WEIGHT), RMul(gap, gap)))

(***************************************************************************)
(* _learn_func_property (lines 78-90), applied to the lists after the new  *)
(* pair was appended.  calls lists the argument tuples handed to func in   *)
(* the order of the two loops, results the value func returned for each,   *)
(* raised whether one of them raised instead, in which case the exception  *)
(* leaves _learn_func_property, after insertion_sort changed the lists.    *)
(***************************************************************************)
Normalizer_OffByOne(num_data) == num_data - 1

\* the divisor of line 90
Normalizer(num_data) == num_data - 2

\* Python's range(lo, hi) as a sequence
Range(lo, hi) == [k \in 1..Max(hi - lo, 0) |-> lo + k - 1]

LearnCalls_Unsplit(s, a, j, num_data) ==
  LET others == Range(1, j) \o Range(j + 1, num_data)
  IN  [c \in 1..Len(others) |->
         <<At(s, 0), At(s, others[c]), At(s, j),
           At(a, 0), At(a, others[c]), At(a, j)>>]

LearnCalls(s, a, j, num_data) ==
  LET below == Range(1, j)
      above == Range(j + 1, num_data)
  IN  [c \in 1..Len(below) |->
         <<At(s, 0), At(s, below[c]), At(s, j),
           At(a, 0), At(a, below[c]), At(a, j)>>]
      \o
      [c \in 1..Len(above) |->
         <<At(s, 0), At(s, j), At(s, above[c]),
           At(a, 0), At(a, j), At(a, above[c])>>]

learn_func_property(states_, actions_) ==
  LET r        == insertion_sort(states_, actions_)
      num_data == Len(r.states)
      calls    == IF num_data <= 2 THEN <<>>
                  ELSE LearnCalls(r.states, r.actions, r.j, num_data)
      results  == [c \in 1..Len(calls) |->
                     func_property(calls[c][1], calls[c][2], calls[c][3],
                                   calls[c][4], calls[c][5], calls[c][6])]
  IN  [states  |-> r.states,
       actions |-> r.actions,
       j       |-> r.j,
       calls   |-> calls,
       results |-> results,
       raised  |-> \E c \in 1..Len(calls) :
                     func_property_raises(calls[c][1], calls[c][2], calls[c][3]),
       penalty |-> IF num_data <= 2 THEN RZero
                   ELSE RDiv(RSum(results), RInt(Normalizer(num_data)))]

(***************************************************************************)
(* BSM_call_price_and_delta (lines 35-44), price component.  With tau > 0  *)
(* line 40 divides by sigma*sqrt(tau): a ZeroDivisionError when sigma = 0. *)
(* The closed form itself (log, normal CDF) is not computed: for sigma > 0 *)
(* the zero-rate call price lies between max(St - K, 0) and St, and the    *)
(* model returns every grid value of that interval.                        *)
(***************************************************************************)
BSM_ZeroVolIntrinsic(K, tau, St, sigma_) ==
  IF tau <= 0 THEN {[err |-> FALSE, price |-> 0]}
  ELSE IF sigma_ = 0 THEN {[err |-> FALSE, price |-> Max(St - K, 0)]}
  ELSE {[err |-> FALSE, price |-> p] : p \in Max(St - K, 0)..St}

BSM_call_price(K, tau, St, sigma_) ==
  IF tau <= 0 THEN {[err |-> FALSE, price |-> 0]}
  ELSE IF sigma_ = 0 THEN {[err |-> TRUE, price |-> 0]}
  ELSE {[err |-> FALSE, price |-> p] : p \in Max(St - K, 0)..St}

(***************************************************************************)
(* BSM_call_price_and_delta (lines 35-44) on any arguments, with the line  *)
(* the call ends at.  Line 36 returns (0, 0) when tau <= 0.  Otherwise     *)
(* line 38 computes log(St / K): with K = 0 the quotient raises            *)
(* ZeroDivisionError for a Python number and is inf or nan for a numpy     *)
(* one, of which math.log raises ValueError or returns a non-finite value; *)
(* with St / K <= 0 math.log raises ValueError.  Line 40 raises            *)
(* ZeroDivisionError when sigma = 0.  The value returned by line 44 is     *)
(* bounded as in BSM_call_price when K, St and sigma are positive, and by  *)
(* St*[0,1] - K*[0,1] otherwise; delta is a value of the normal CDF.       *)
(***************************************************************************)
BSMEnds(outcome, line, prices_, deltas) ==
  {[outcome |-> outcome, line |-> line, price |-> p, delta |-> d] :
     p \in prices_, d \in deltas}

ExpiredAt_Strict(tau) == tau < 0

\* line 36
ExpiredAt(tau) == tau <= 0

BSM_call_price_and_delta(K, tau, St, sigma_) ==
  IF ExpiredAt(tau) THEN BSMEnds("ok", 36, {0}, {RZero})
  ELSE IF K = 0
       THEN BSMEnds("ZeroDivisionError", 38, {0}, {RZero})
            \cup BSMEnds("ValueError", 38, {0}, {RZero})
            \cup BSMEnds("nonfinite", 44, {0}, {RZero})
  ELSE IF St * K <= 0 THEN BSMEnds("ValueError", 38, {0}, {RZero})
  ELSE IF sigma_ = 0 THEN BSMEnds("ZeroDivisionError", 40, {0}, {RZero})
  ELSE BSMEnds("ok", 44,
               IF K > 0 /\ St > 0 /\ sigma_ > 0 THEN Max(St - K, 0)..St
               ELSE (Min(St, 0) - Max(K, 0))..(Max(St, 0) - Min(K, 0)),
               {RZero, <<1, 2>>, RInt(1)})

(***************************************************************************)
(* _next_price (lines 59-65).  The normal sample makes S0*exp(x) any       *)
(* positive price when sigma > 0 and exactly S0 when sigma = 0; lines      *)
(* 63-64 clamp it.                                                         *)
(***************************************************************************)
RawPrices(sigma_) == IF sigma_ = 0 THEN {S0} ELSE 1..MaxRaw

Clamp_NoFloor(p) == Min(p, MAX_PRICE)

\* lines 63-64
Clamp(p) == Max(Min(p, MAX_PRICE), MIN_PRICE)

next_price(sigma_) == {Clamp(p) : p \in RawPrices(sigma_)}

(***************************************************************************)
(* Line 93: round(action[0] * action_space_normalizer).  The product is    *)
(* given in half units h (the value h/2); Python rounds halves to even.    *)
(***************************************************************************)
Actions == (-2 * action_space_normalizer)..(2 * action_space_normalizer)

Round(h) ==
  IF h % 2 = 0 THEN h \div 2
  ELSE LET lo == (h - 1) \div 2
       IN  IF lo % 2 = 0 THEN lo ELSE lo + 1

ClampPosition_Unclamped(p) == p

\* line 100
ClampPosition(p) == Max(Min(p, OptionSize), -OptionSize)

TransactionCost_Concave(trade_size) ==
  RMul(TickSize, RSub(RInt(10 * trade_size), RInt(trade_size * trade_size)))

\* line 106
TransactionCost(trade_size) ==
  RMul(TickSize, RAdd(RInt(trade_size),
                      RMul(<<1, 100>>, RInt(trade_size * trade_size))))

\* line 110
Utility(PnL) == RSub(PnL, RMul(RMul(<<1, 2>>, kappa_dh), RMul(PnL, PnL)))

NormalizedAction_PositiveOnly(ac, old_pos) ==
  IF old_pos > 0 THEN Rat(ac, old_pos) ELSE RInt(ac)

\* line 115-117
NormalizedAction(ac, old_pos) ==
  IF Abs(old_pos) > 0 THEN Rat(ac, old_pos) ELSE RInt(ac)

(***************************************************************************)
(* State.  The per-step arrays are functions on 0.._L (numpy arrays of     *)
(* length _L + 1), the log is the pair of lists states/actions.            *)
(*   sigma      the volatility the environment runs with                   *)
(*   started    reset() has been called at least once                      *)
(*   learn      what the last _learn_func_property call did                *)
(*   ret        how the last reset()/step() call ended; for a step() also  *)
(*              its rounded delta ac and the arguments priced it handed to *)
(*              BSM_call_price_and_delta (<<>> when it made no such call)  *)
(*   all_zero   every step() since the last reset() had a zero delta       *)
(*   probe      a direct call of func_property, of the cost formula or of  *)
(*              BSM_call_price_and_delta: its arguments and, once          *)
(*              evaluated, its result                                      *)
(***************************************************************************)
VARIABLES sigma, started, step_counts, positions, prices, option_prices,
          costs, profits, rewards, states, actions, learn, ret, all_zero,
          probe

vars == <<sigma, started, step_counts, positions, prices, option_prices,
          costs, profits, rewards, states, actions, learn, ret, all_zero,
          probe>>

episode_vars == <<sigma, started, step_counts, positions, prices,
                  option_prices, costs, profits, rewards, ret, all_zero>>

\* line 49: the horizon handed to RLFEnv.__init__
_L == T

Steps_Longer == 0..(_L + 1)

\* the indices of an array of length _L + 1 (line 71)
Steps == 0.._L

NoLearn == [j |-> -1, calls |-> <<>>, results |-> <<>>, penalty |-> RZero,
            raised |-> FALSE]

NoRet == [kind |-> "none", error |-> "", line |-> 0, reward |-> RZero,
          done |-> FALSE, obs |-> <<>>, ac |-> 0, priced |-> <<>>]

NoProbe == [fn |-> "", args |-> <<>>, result |-> <<>>, evaluated |-> FALSE,
            raised |-> FALSE]

IsDone_Early(cnt) == cnt >= _L - 1

\* line 99
IsDone(cnt) == cnt = _L

\* line 76
get_state(pos, cnt, prc) == <<pos[cnt], T - cnt, prc[cnt]>>

Raised(error, line) ==
  [kind |-> "error", error |-> error, line |-> line, reward |-> RZero,
   done |-> FALSE, obs |-> <<>>, ac |-> 0, priced |-> <<>>]

PricerCall_AlwaysReprice(done, cnt, new_price, sigma_) ==
  <<S0, T - cnt, new_price, sigma_>>

\* lines 102-103: the arguments of the BSM_call_price_and_delta call, <<>> on
\* the terminal step, which makes none
PricerCall(done, cnt, new_price, sigma_) ==
  IF done THEN <<>> ELSE <<S0, T - cnt, new_price, sigma_>>

\* the environment as constructed (lines 48-49), before the first reset()
InitWith(vol, prb) ==
  /\ sigma = vol
  /\ probe = prb
  /\ started = FALSE
  /\ step_counts = 0
  /\ positions = [t \in Steps |-> 0]
  /\ prices = [t \in Steps |-> 0]
  /\ option_prices = [t \in Steps |-> 0]
  /\ costs = [t \in Steps |-> RZero]
  /\ profits = [t \in Steps |-> RZero]
  /\ rewards = [t \in Steps |-> RZero]
  /\ states = <<>>
  /\ actions = <<>>
  /\ learn = NoLearn
  /\ ret = NoRet
  /\ all_zero = TRUE

Init == InitWith(sigma_dh, NoProbe)

(***************************************************************************)
(* RLFEnv.reset, called by line 68: zeroes the step counter and the        *)
(* per-step arrays and empties the log.  zeros is the array it leaves in   *)
(* self._prices.                                                           *)
(***************************************************************************)
zeros == [t \in Steps |-> 0]

RLFEnv_reset ==
  /\ step_counts' = 0
  /\ positions' = zeros
  /\ costs' = [t \in Steps |-> RZero]
  /\ profits' = [t \in Steps |-> RZero]
  /\ rewards' = [t \in Steps |-> RZero]
  /\ states' = <<>>
  /\ actions' = <<>>

(***************************************************************************)
(* reset (lines 67-73): RLFEnv.reset, then the initial price and option    *)
(* value.                                                                  *)
(***************************************************************************)
Reset ==
  /\ RLFEnv_reset
  /\ started' = TRUE
  /\ prices' = [zeros EXCEPT ![0] = S0]
  /\ option_prices' = [zeros EXCEPT ![0] = S0]
  /\ learn' = NoLearn
  /\ all_zero' = TRUE
  /\ ret' = [NoRet EXCEPT !.kind = "reset",
                          !.obs = get_state(positions', 0, prices')]
  /\ UNCHANGED <<sigma, probe>>

(***************************************************************************)
(* step (lines 92-120) with action[0]*action_space_normalizer = h/2.       *)
(* An exception leaves behind whatever the lines before it assigned.       *)
(***************************************************************************)
Step(h) ==
  LET ac == Round(h) IN
  /\ started
  /\ all_zero' = (all_zero /\ ac = 0)
  /\ UNCHANGED <<sigma, started, probe>>
  /\ IF step_counts \notin Steps
     THEN \* line 95 reads self._positions[self._step_counts]
          /\ ret' = Raised("IndexError", 95)
          /\ UNCHANGED <<step_counts, positions, prices, option_prices, costs,
                         profits, rewards, states, actions, learn>>
     ELSE
       LET old_pos          == positions[step_counts]
           old_price        == prices[step_counts]
           old_option_price == option_prices[step_counts]
           cnt              == step_counts + 1
           done             == IsDone(cnt)
           new_pos          == ClampPosition(old_pos + ac)
       IN
       /\ step_counts' = cnt
       /\ IF cnt \notin Steps
          THEN \* line 100 stores into self._positions[self._step_counts]
               /\ ret' = Raised("IndexError", 100)
               /\ UNCHANGED <<positions, prices, option_prices, costs,
                              profits, rewards, states, actions, learn>>
          ELSE
            /\ positions' = [positions EXCEPT ![cnt] = new_pos]
            /\ \E new_price \in next_price(sigma) :
               /\ prices' = [prices EXCEPT ![cnt] = new_price]
               /\ \E bsm \in (LET call == PricerCall(done, cnt, new_price, sigma)
                              IN  IF call = <<>>
                                  THEN {[err |-> FALSE, price |-> old_option_price,
                                         call |-> call]}
                                  ELSE {[err |-> b.err, price |-> b.price,
                                         call |-> call] :
                                          b \in BSM_call_price(call[1], call[2],
                                                               call[3], call[4])}) :
                  IF bsm.err
                  THEN \* line 40 inside the call of line 103
                       /\ ret' = [Raised("ZeroDivisionError", 40)
                                   EXCEPT !.priced = bsm.call]
                       /\ UNCHANGED <<option_prices, costs, profits, rewards,
                                      states, actions, learn>>
                  ELSE
                    LET new_option_price == bsm.price
                        trade_size == Abs(new_pos - old_pos)
                        cost == TransactionCost(trade_size)
                        PnL  == RSub(RAdd(RInt((new_price - old_price) * old_pos),
                                          RInt(new_option_price - old_option_price)),
                                     cost)
                        lrn  == learn_func_property(
                                  Append(states, new_price),
                                  Append(actions, NormalizedAction(ac, old_pos)))
                        reward == RSub(Utility(PnL), lrn.penalty)
                    IN
                    /\ option_prices' = [option_prices EXCEPT ![cnt] = new_option_price]
                    /\ costs' = [costs EXCEPT ![cnt] = cost]
                    /\ profits' = [profits EXCEPT ![cnt] = RAdd(PnL, cost)]
                    /\ states' = lrn.states
                    /\ actions' = lrn.actions
                    /\ learn' = [j |-> lrn.j, calls |-> lrn.calls,
                                 results |-> lrn.results, penalty |-> lrn.penalty,
                                 raised |-> lrn.raised]
                    /\ IF lrn.raised
                       THEN \* line 28-29 inside the call of line 118
                            /\ rewards' = [rewards EXCEPT ![cnt] = Utility(PnL)]
                            /\ ret' = [Raised("ZeroDivisionError", 28)
                                        EXCEPT !.priced = bsm.call]
                       ELSE /\ rewards' = [rewards EXCEPT ![cnt] = reward]
                            /\ ret' = [kind |-> "step", error |-> "", line |-> 120,
                                       reward |-> reward, done |-> done,
                                       obs |-> get_state(positions', cnt, prices'),
                                       ac |-> ac, priced |-> bsm.call]

Next == Reset \/ \E h \in Actions : Step(h)

Spec == Init /\ [][Next]_vars

(***************************************************************************)
(* The same environment run with zero volatility.                          *)
(***************************************************************************)
InitZeroVol == InitWith(0, NoProbe)

SpecZeroVol == InitZeroVol /\ [][Next]_vars

(***************************************************************************)
(* The regularizer on its own: lines 113-118 of step, which append a       *)
(* (price, normalised action) pair and call _learn_func_property, applied  *)
(* to every sequence of pairs the environment's value sets allow.          *)
(***************************************************************************)
Prices == MIN_PRICE..MAX_PRICE

\* some of the values line 115-117 can append: ac/old_pos or ac
ObsActions == {RInt(-1), RZero, <<1, 2>>, RInt(2)}

Observe(s, a) ==
  /\ Len(states) < MaxLog
  /\ LET lrn == learn_func_property(Append(states, s), Append(actions, a))
     IN  /\ states' = lrn.states
         /\ actions' = lrn.actions
         /\ learn' = [j |-> lrn.j, calls |-> lrn.calls,
                      results |-> lrn.results, penalty |-> lrn.penalty,
                      raised |-> lrn.raised]
  /\ UNCHANGED <<episode_vars, probe>>

NextObserve == \E s \in Prices, a \in ObsActions : Observe(s, a)

SpecObserve == Init /\ [][NextObserve]_vars

(***************************************************************************)
(* The pure functions on their own: func_property on every argument tuple  *)
(* over the value sets, the cost formula of line 106 on pairs of trade     *)
(* sizes x, y (evaluated at x, x+1, y, y+1).                               *)
(***************************************************************************)
FuncProbes == Prices \X Prices \X Prices \X ObsActions \X ObsActions \X ObsActions

CostProbes == (0..MaxTrade) \X (0..MaxTrade)

\* K, tau, St, sigma: non-positive values and the environment's own
BSMProbes == {-1, 0, S0} \X (-1..T) \X ({-1, 0} \cup Prices) \X {-1, 0, sigma_dh}

InitPure ==
  \E prb \in {[fn |-> "func_property", args |-> a, result |-> <<>>,
               evaluated |-> FALSE, raised |-> FALSE] : a \in FuncProbes}
             \cup
             {[fn |-> "cost", args |-> a, result |-> <<>>,
               evaluated |-> FALSE, raised |-> FALSE] : a \in CostProbes}
             \cup
             {[fn |-> "BSM_call_price_and_delta", args |-> a, result |-> <<>>,
               evaluated |-> FALSE, raised |-> FALSE] : a \in BSMProbes} :
    InitWith(sigma_dh, prb)

CallFuncProperty ==
  /\ probe.fn = "func_property"
  /\ ~probe.evaluated
  /\ probe' = [probe EXCEPT
                 !.result = func_property(probe.args[1], probe.args[2],
                                          probe.args[3], probe.args[4],
                                          probe.args[5], probe.args[6]),
                 !.raised = func_property_raises(probe.args[1], probe.args[2],
                                                 probe.args[3]),
                 !.evaluated = TRUE]
  /\ UNCHANGED <<episode_vars, states, actions, learn>>

CallCost ==
  /\ probe.fn = "cost"
  /\ ~probe.evaluated
  /\ probe' = [probe EXCEPT
                 !.result = <<TransactionCost(probe.args[1]),
                              TransactionCost(probe.args[1] + 1),
                              TransactionCost(probe.args[2]),
                              TransactionCost(probe.args[2] + 1)>>,
                 !.evaluated = TRUE]
  /\ UNCHANGED <<episode_vars, states, actions, learn>>

CallBSM ==
  /\ probe.fn = "BSM_call_price_and_delta"
  /\ ~probe.evaluated
  /\ \E r \in BSM_call_price_and_delta(probe.args[1], probe.args[2],
                                       probe.args[3], probe.args[4]) :
       probe' = [probe EXCEPT !.result = r, !.evaluated = TRUE]
  /\ UNCHANGED <<episode_vars, states, actions, learn>>

NextPure == CallFuncProperty \/ CallCost \/ CallBSM

SpecPure == InitPure /\ [][NextPure]_vars

(***************************************************************************)
(* The regularizer and its triple evaluator together: either a sequence of *)
(* observations or one direct call of func_property.                       *)
(***************************************************************************)
InitShape ==
  \E prb \in {NoProbe}
             \cup
             {[fn |-> "func_property", args |-> a, result |-> <<>>,
               evaluated |-> FALSE, raised |-> FALSE] : a \in FuncProbes} :
    InitWith(sigma_dh, prb)

ObserveNext == probe = NoProbe /\ NextObserve

NextShape == ObserveNext \/ CallFuncProperty

SpecShape == InitShape /\ [][NextShape]_vars

(***************************************************************************)
(* Properties.                                                             *)
(***************************************************************************)
Sorted(seq) == \A i \in 1..(Len(seq) - 1) : seq[i] <= seq[i + 1]

\* C1: after any sequence of observations (append, then insertion_sort) the
\* state values of the log are non-decreasing, duplicates and clamped
\* MIN_PRICE/MAX_PRICE values included.
C1_LogSorted == Sorted(states) /\ Len(actions) = Len(states)

\* a full log holding both clamp values and a duplicate, whose last pair was
\* inserted in the middle
C1_Witness ==
  /\ Len(states) = MaxLog
  /\ learn.j \in 1..(MaxLog - 2)
  /\ states[1] = MIN_PRICE
  /\ states[MaxLog] = MAX_PRICE
  /\ \E i \in 1..(MaxLog - 1) : states[i] = states[i + 1]

\* C2: a step() call returns done = TRUE exactly when that call moves the
\* step counter from L-1 to L; every other returning step() call returns
\* done = FALSE, so none returns TRUE again until reset() restarts the counter.
C2_DoneExactlyAtL ==
  [][ret'.kind = "step" =>
       (ret'.done <=> (step_counts = _L - 1 /\ step_counts' = _L))]_vars

C2_Witness == ret.kind = "step" /\ ret.done /\ step_counts = _L

\* C3: every recorded position lies in [-OptionSize, OptionSize].
C3_PositionClamped ==
  \A t \in Steps : -OptionSize <= positions[t] /\ positions[t] <= OptionSize

\* the position is at the cap and the second step asked for more: the first
\* delta (logged raw, the position being flat) and the second (logged divided
\* by the old position OptionSize) were both OptionSize
C3_Witness ==
  /\ step_counts = 2
  /\ positions[1] = OptionSize
  /\ positions[2] = OptionSize
  /\ \E i, k \in 1..Len(actions) :
       i # k /\ actions[i] = RInt(OptionSize) /\ actions[k] = RInt(1)

\* C4: after reset(), every price recorded so far (t = 0 included) lies in
\* [MIN_PRICE, MAX_PRICE].
C4_PriceBounds ==
  started =>
    \A t \in Steps :
      t <= step_counts => MIN_PRICE <= prices[t] /\ prices[t] <= MAX_PRICE

\* both clamp values have been recorded in one episode
C4_Witness ==
  /\ started
  /\ step_counts >= 2
  /\ \E t, u \in 1..Min(step_counts, _L) :
       prices[t] = MIN_PRICE /\ prices[u] = MAX_PRICE

Square(x) == RMul(x, x)

\* the slope gap grad2 - grad1 of an argument tuple of func_property
SlopeGap(a) == RSub(Grad(a[1], a[3], a[4], a[6]), Grad(a[1], a[2], a[4], a[5]))

FuncEvaluated == probe.fn = "func_property" /\ probe.evaluated

\* C5: for s0 < s1 <= s2 func_property returns at most MAX_PENALTY; when
\* grad1 < grad2 it returns WEIGHT*(grad2-grad1)^2 if that is below
\* MAX_PENALTY and MAX_PENALTY otherwise.
C5_PenaltyCap ==
  (FuncEvaluated /\ probe.args[1] < probe.args[2]
                 /\ probe.args[2] <= probe.args[3]) =>
    LET gap == SlopeGap(probe.args)
        raw == RMul(RInt(PENALTY_WEIGHT), Square(gap))
    IN  /\ RLe(probe.result, RInt(MAX_PENALTY))
        /\ RLt(RZero, gap) =>
             probe.result = IF RLt(raw, RInt(MAX_PENALTY)) THEN raw
                            ELSE RInt(MAX_PENALTY)

\* a convex triple whose weighted squared gap exceeds the cap
C5_Witness ==
  /\ FuncEvaluated
  /\ probe.args[1] < probe.args[2]
  /\ probe.args[2] < probe.args[3]
  /\ RLt(RZero, SlopeGap(probe.args))
  /\ RLt(RInt(MAX_PENALTY),
         RMul(RInt(PENALTY_WEIGHT), Square(SlopeGap(probe.args))))
  /\ probe.result = RInt(MAX_PENALTY)

\* C6: for s0 < s1 < s2 with grad1 >= grad2 (concave or collinear)
\* func_property returns 0.
C6_ConcaveZero ==
  (FuncEvaluated /\ probe.args[1] < probe.args[2]
                 /\ probe.args[2] < probe.args[3]
                 /\ RLe(SlopeGap(probe.args), RZero)) =>
    probe.result = RZero

\* a strictly concave triple with non-zero slopes
C6_Witness ==
  /\ FuncEvaluated
  /\ probe.args[1] < probe.args[2]
  /\ probe.args[2] < probe.args[3]
  /\ RLt(SlopeGap(probe.args), RZero)
  /\ probe.args[4] # probe.args[5]
  /\ probe.args[4] # probe.args[6]
  /\ probe.result = RZero

Called == ret.kind \in {"step", "error"}

\* C7 as stated: with sigma = 0 and a zero action on every step, every step
\* completes and returns reward 0, with price S0, position 0 and cost 0
\* throughout.
C7_AsStated ==
  (sigma = 0 /\ all_zero /\ Called) =>
    /\ ret.kind = "step"
    /\ ret.reward = RZero
    /\ \A t \in Steps :
         t <= step_counts =>
           prices[t] = S0 /\ positions[t] = 0 /\ costs[t] = RZero

\* C7 amended: with sigma = 0 and a zero action on every step, price stays S0,
\* position 0 and cost 0 at every index reached; every step whose counter
\* stays below L ends in the ZeroDivisionError of line 40 and records no
\* reward, option value or log entry; the terminal step (counter = L) completes
\* with reward 0 and done = TRUE.
C7_ZeroVol ==
  (sigma = 0 /\ all_zero /\ Called /\ step_counts <= _L) =>
    /\ \A t \in Steps :
         t <= step_counts =>
           prices[t] = S0 /\ positions[t] = 0 /\ costs[t] = RZero
    /\ \A t \in Steps : rewards[t] = RZero
    /\ step_counts < _L =>
         /\ ret.kind = "error"
         /\ ret.error = "ZeroDivisionError"
         /\ option_prices[step_counts] = 0
         /\ states = <<>>
    /\ step_counts = _L =>
         /\ ret.kind = "step"
         /\ ret.done
         /\ ret.reward = RZero
         /\ ret.obs = <<0, 0, S0>>

\* the terminal step of the all-zero scenario has returned
C7_Witness ==
  sigma = 0 /\ all_zero /\ step_counts = _L /\ ret.kind = "step"

\* C8: once the episode is over (the counter has reached L), every call
\* other than reset() ends in an error and returns no (state, reward, done).
C8_StepAfterDoneRaises ==
  [][(started /\ step_counts >= _L /\ ret'.kind # "reset") =>
       ret'.kind = "error"]_vars

\* step() was called twice after the terminal step
C8_Witness ==
  ret.kind = "error" /\ ret.error = "IndexError" /\ ret.line = 95
    /\ step_counts = _L + 1

LogGrown == learn.j >= 0 /\ Len(states) >= 3

\* C9 as stated: whenever an observation leaves n >= 3 entries, n-2 triples
\* were evaluated and the penalty is their sum divided by n-2, for every
\* insertion index j in [0, n-1].
C9_AsStated ==
  LogGrown =>
    /\ Len(learn.calls) = Len(states) - 2
    /\ learn.penalty = RDiv(RSum(learn.results), RInt(Len(states) - 2))

\* C9 amended: whenever an observation leaves n >= 3 entries, the penalty is
\* the sum of the evaluated triple penalties divided by n-2; n-2 triples are
\* evaluated when the insertion index j >= 1, and n-1 when j = 0, where every
\* one of them is degenerate and returns 0, so that the penalty is the mean of
\* the evaluated penalties for every j.
C9_MeanPenalty ==
  LogGrown =>
    LET n == Len(states)
        total == RSum(learn.results)
    IN  /\ Len(learn.results) = Len(learn.calls)
        /\ learn.penalty = RDiv(total, RInt(n - 2))
        /\ learn.j >= 1 => Len(learn.calls) = n - 2
        /\ learn.j = 0 =>
             /\ Len(learn.calls) = n - 1
             /\ \A c \in 1..Len(learn.results) : learn.results[c] = RZero
        /\ learn.penalty = RDiv(total, RInt(Len(learn.calls)))

\* an insertion in the middle of a full log with a non-zero penalty of which
\* one triple is penalised and another is not
C9_Witness ==
  /\ Len(states) = MaxLog
  /\ learn.j \in 1..(MaxLog - 2)
  /\ learn.penalty # RZero
  /\ \E c, d \in 1..Len(learn.results) :
       learn.results[c] # RZero /\ learn.results[d] = RZero

CostEvaluated == probe.fn = "cost" /\ probe.evaluated

\* C10: cost(0) = 0, cost is strictly increasing (x < y implies
\* cost(x) < cost(y)) and convex (cost(x+1) - cost(x) is non-decreasing in x)
\* over the integer trade sizes.
C10_CostShape ==
  CostEvaluated =>
    LET x == probe.args[1]
        y == probe.args[2]
        cx  == probe.result[1]
        cx1 == probe.result[2]
        cy  == probe.result[3]
        cy1 == probe.result[4]
    IN  /\ x = 0 => cx = RZero
        /\ x < y => RLt(cx, cy)
        /\ x <= y => RLe(RSub(cx1, cx), RSub(cy1, cy))

\* the cost was evaluated at 0 and at a larger trade size
C10_Witness ==
  /\ CostEvaluated
  /\ probe.args[1] = 0
  /\ probe.args[2] >= 2
  /\ probe.result[1] = RZero
  /\ RLt(RZero, probe.result[3])

BSMEvaluated == probe.fn = "BSM_call_price_and_delta" /\ probe.evaluated

\* C11: for tau <= 0 the option pricer returns (0, 0) whatever K, St and
\* sigma are, non-positive values included, and returns at line 36, before
\* the d1/d2 formulas: no division by zero and no log of a non-positive number.
C11_ExpiredIsZero ==
  (BSMEvaluated /\ probe.args[2] <= 0) =>
    /\ probe.result.outcome = "ok"
    /\ probe.result.line = 36
    /\ probe.result.price = 0
    /\ probe.result.delta = RZero

\* the pricer was called at tau = 0 with a zero strike, spot and volatility
C11_Witness ==
  /\ BSMEvaluated
  /\ probe.args = <<0, 0, 0, 0>>
  /\ probe.result.outcome = "ok"

\* C12: in every call _learn_func_property makes to func_property the three
\* state values are in ascending order, s0 <= s1 <= s2, whatever the insertion
\* index (0 and n-1 included) and the log.
C12_CallsAscending ==
  \A c \in 1..Len(learn.calls) :
    learn.calls[c][1] <= learn.calls[c][2] /\ learn.calls[c][2] <= learn.calls[c][3]

\* an insertion strictly inside a full log, so that both loops made a call,
\* one of them on three distinct state values
C12_Witness ==
  /\ Len(states) = MaxLog
  /\ learn.j \in 2..(MaxLog - 2)
  /\ Len(learn.calls) = MaxLog - 2
  /\ \E c \in 1..Len(learn.calls) :
       learn.calls[c][1] < learn.calls[c][2] /\ learn.calls[c][2] < learn.calls[c][3]

\* C13: an observation of (s, a) on a sorted log returns j with log[j] the
\* new pair; the entries before j are the old entries 0..j-1, unchanged and
\* with a state <= s (so the new pair lands after every equal state); the
\* entries after j are the old entries j..n-2, each moved right by one with
\* its own action, and each has a state strictly larger than s.
C13_StableInsertion ==
  [][\A s \in Prices, a \in ObsActions :
       Observe(s, a) =>
         LET j == learn'.j
             n == Len(states')
         IN  /\ n = Len(states) + 1
             /\ Len(actions') = n
             /\ j \in 0..(n - 1)
             /\ At(states', j) = s
             /\ At(actions', j) = a
             /\ \A k \in 0..(j - 1) :
                  /\ At(states', k) = At(states, k)
                  /\ At(actions', k) = At(actions, k)
                  /\ At(states, k) <= s
             /\ \A k \in j..(n - 2) :
                  /\ At(states', k + 1) = At(states, k)
                  /\ At(actions', k + 1) = At(actions, k)
                  /\ At(states, k) > s]_vars

\* the new pair sits right after an entry of equal state and another action,
\* and right before a shifted entry of larger state
C13_Witness ==
  /\ Len(states) = MaxLog
  /\ learn.j \in 1..(MaxLog - 2)
  /\ At(states, learn.j - 1) = At(states, learn.j)
  /\ At(actions, learn.j - 1) # At(actions, learn.j)
  /\ At(states, learn.j + 1) > At(states, learn.j)

\* C14: the terminal step (counter = L, done) makes no pricer call and
\* carries the option value forward, optionValue[L] = optionValue[L-1], so
\* that the step's gross P&L is the hedge term alone; every other step reprices
\* the option by BSM_call_price_and_delta(S0, T - counter, price[counter],
\* sigma) and records a value that call can return.
C14_TerminalCarriedForward ==
  (ret.kind = "step") =>
    IF step_counts = _L
    THEN /\ ret.done
         /\ ret.priced = <<>>
         /\ option_prices[_L] = option_prices[_L - 1]
         /\ profits[_L] = RInt((prices[_L] - prices[_L - 1]) * positions[_L - 1])
    ELSE /\ ~ret.done
         /\ ret.priced = <<S0, T - step_counts, prices[step_counts], sigma>>
         /\ T - step_counts > 0
         /\ [err |-> FALSE, price |-> option_prices[step_counts]]
              \in BSM_call_price(S0, T - step_counts, prices[step_counts], sigma)

\* a terminal step that carried forward a non-zero option value
C14_Witness ==
  /\ ret.kind = "step"
  /\ step_counts = _L
  /\ option_prices[_L] > 0
  /\ option_prices[_L] = option_prices[_L - 1]

\* C15: every step() that returns grows both lists of the log by exactly one
\* entry, to the length of the step counter; a call that raises leaves them
\* as they were; only reset() empties them.
C15_LogGrowsByOne ==
  [][/\ ret'.kind = "step" =>
          /\ Len(states') = Len(states) + 1
          /\ Len(actions') = Len(actions) + 1
          /\ Len(states') = step_counts'
          /\ Len(actions') = step_counts'
     /\ ret'.kind = "error" =>
          /\ states' = states
          /\ actions' = actions]_vars

\* a whole episode was logged, two of its prices being equal
C15_Witness ==
  /\ ret.kind = "step"
  /\ step_counts = _L
  /\ Len(states) = _L
  /\ Len(actions) = _L
  /\ \E i \in 1..(_L - 1) : states[i] = states[i + 1]

\* C17: the action a returning step() logs is delta/oldPosition when the old
\* position is not 0 and the rounded delta itself when it is 0, so that no
\* step divides by zero, whatever the position and the action.
C17_NormalizedAction ==
  [][(ret'.kind = "step") =>
       LET old_pos == positions[step_counts]
       IN  /\ step_counts' = step_counts + 1
           /\ At(states', learn'.j) = prices'[step_counts']
           /\ At(actions', learn'.j) =
                IF old_pos # 0 THEN Rat(ret'.ac, old_pos) ELSE RInt(ret'.ac)]_vars

\* a step from a short position and a later one from a flat position, both
\* with a non-zero delta: the log holds a delta divided by a negative
\* position
C17_Witness ==
  /\ ret.kind = "step"
  /\ step_counts = _L
  /\ positions[_L - 2] < 0
  /\ positions[_L - 1] = 0
  /\ ret.ac # 0
  /\ At(actions, learn.j) = RInt(ret.ac)

\* C16: func_property returns 0 whenever s1 = s0 or s2 = s0; with
\* s0 <= s1 <= s2 it never divides by zero; and no observation on any log,
\* logs with repeated (clamped) prices included, raises a division by zero.
C16_NoDivisionByZero ==
  /\ FuncEvaluated =>
       /\ (probe.args[2] = probe.args[1] \/ probe.args[3] = probe.args[1]) =>
            probe.result = RZero /\ ~probe.raised
       /\ (probe.args[1] <= probe.args[2] /\ probe.args[2] <= probe.args[3]) =>
            ~probe.raised
  /\ ~learn.raised
  /\ \A c \in 1..Len(learn.calls) :
       learn.calls[c][2] = learn.calls[c][1] => learn.results[c] = RZero

\* a full log starting with two entries at MIN_PRICE: the last observation
\* evaluated a degenerate triple and one that is not
C16_Witness ==
  /\ Len(states) = MaxLog
  /\ states[1] = MIN_PRICE
  /\ states[2] = MIN_PRICE
  /\ learn.j >= 1
  /\ ~learn.raised
  /\ \E c, d \in 1..Len(learn.calls) :
       /\ learn.calls[c][2] = learn.calls[c][1]
       /\ learn.calls[d][2] # learn.calls[d][1]

\* C18: whenever the new pair is inserted at index 0, the anchor is the new
\* pair itself, every triple evaluated has s1 = s0 and returns 0, and the
\* penalty is 0 whatever the actions are.
C18_InsertAtFrontZero ==
  (learn.j = 0) =>
    /\ ~learn.raised
    /\ learn.penalty = RZero
    /\ \A c \in 1..Len(learn.calls) :
         /\ learn.calls[c][1] = states[1]
         /\ learn.calls[c][2] = learn.calls[c][1]
         /\ learn.results[c] = RZero

\* an insertion at the front of three pairs that form a convex triple: the
\* same three points anchored at index 0 in another call order are penalised
C18_Witness ==
  /\ learn.j = 0
  /\ Len(states) >= 3
  /\ Len(learn.calls) = Len(states) - 1
  /\ states[1] < states[2]
  /\ states[2] < states[3]
  /\ func_property(states[1], states[2], states[3],
                   actions[1], actions[2], actions[3]) # RZero
  /\ learn.penalty = RZero

\* the profit and loss of step t, recomputed from the recorded arrays
\* (lines 105-107)
StepPnL(t) ==
  RSub(RAdd(RInt((prices[t] - prices[t - 1]) * positions[t - 1]),
            RInt(option_prices[t] - option_prices[t - 1])),
       costs[t])

\* PnL - 0.5*kappa*PnL^2
RiskAdjusted(PnL) == RSub(PnL, RMul(RMul(<<1, 2>>, kappa_dh), Square(PnL)))

\* C19: on every step the penalty of the regularizer lies in
\* [0, MAX_PENALTY] and is 0 when the log has at most 2 entries, and every
\* recorded reward satisfies
\* PnL - 0.5*kappa*PnL^2 - MAX_PENALTY <= reward[t] <= PnL - 0.5*kappa*PnL^2.
C19_RewardBand ==
  /\ (ret.kind = "step") =>
       /\ RLe(RZero, learn.penalty)
       /\ RLe(learn.penalty, RInt(MAX_PENALTY))
       /\ (Len(states) <= 2) => learn.penalty = RZero
       /\ rewards[step_counts] =
            RSub(RiskAdjusted(StepPnL(step_counts)), learn.penalty)
  /\ (ret.kind \in {"step", "raise"}) =>
       \A t \in 1..Min(step_counts, _L) :
         /\ RLe(RSub(RiskAdjusted(StepPnL(t)), RInt(MAX_PENALTY)), rewards[t])
         /\ RLe(rewards[t], RiskAdjusted(StepPnL(t)))

\* a step whose new pair completes a convex triple penalised at the cap:
\* the reward sits on the lower edge of the band
C19_Witness ==
  /\ ret.kind = "step"
  /\ Len(states) = 3
  /\ learn.j >= 1
  /\ learn.penalty = RInt(MAX_PENALTY)
  /\ StepPnL(step_counts) # RZero
  /\ rewards[step_counts] =
       RSub(RiskAdjusted(StepPnL(step_counts)), RInt(MAX_PENALTY))

====
